---- MODULE Spec2Model ----
(***************************************************************************)
(* The Historical Court pipeline of workflow_agents/agent.py:               *)
(* the two tools (append_to_state, write_file) and the agent tree           *)
(*   root_agent -> court_system = Sequential[ trial_process, verdict_writer ]*)
(*   trial_process = Loop(max_iterations)[ investigation_team, judge_agent ] *)
(*   investigation_team = Parallel[ admirer_agent, critic_agent ].           *)
(*                                                                         *)
(* A text (a subject, a name, a file's content) is a sequence of tokens,    *)
(* " " being the space; a path is the sequence of its components, each a    *)
(* text.  A session-state value is a record [t, v]: t is the Python type    *)
(* ("absent" for a missing key, "str", "list") and v its content.           *)
(***************************************************************************)
EXTENDS Naturals, Sequences, FiniteSets, TLC

\* ------------------------------------------------------------------ bounds

\* tool calls made by the tool-level specification ToolSpec
MaxCalls == 3

\* append_to_state calls one agent makes in one run
MaxAppends == 1

\* ------------------------------------------------------- program constants

max_iterations == 4

Fields == {"PROMPT", "judge_feedback", "pos_data", "neg_data"}

ResearchAgents == {"admirer_agent", "critic_agent"}

Agents == ResearchAgents \cup {"historical_court_clerk", "judge_agent"}

\* the root directory, as the first component of an absolute path
Root == <<"/">>

\* directory: "court_records"
court_records == <<<<"court_records">>>>

\* ------------------------------------------------------------ value shapes

Absent == [t |-> "absent", v |-> <<>>]

Str(x) == [t |-> "str", v |-> <<x>>]

List(l) == [t |-> "list", v |-> l]

EmptyState == [f \in Fields |-> Absent]

EmptyFs == [files |-> <<>>, dirs |-> {<<>>, <<Root>>}]

\* --------------------------------------------------------- append_to_state

StateGetNoDefault(st, field) == st[field]

\* tool_context.state.get(field, [])
StateGet(st, field) == IF st[field].t = "absent" THEN List(<<>>) ELSE st[field]

NormaliseNoWrap(existing) == existing

\* if isinstance(existing_state, str): existing_state = [existing_state]
Normalise(existing) == IF existing.t = "str" THEN List(existing.v) ELSE existing

PlusOverwrite(existing, response) == [ok |-> TRUE, val |-> Str(response)]

PlusPrepend(existing, response) ==
    IF existing.t = "list"
    THEN [ok |-> TRUE, val |-> List(<<response>> \o existing.v)]
    ELSE [ok |-> FALSE, val |-> existing]

\* existing_state + [response]; str + list raises TypeError
Plus(existing, response) ==
    IF existing.t = "list"
    THEN [ok |-> TRUE, val |-> List(Append(existing.v, response))]
    ELSE [ok |-> FALSE, val |-> existing]

\* tool_context.state[field] = <value>; nothing is stored when the sum raised
StateSet(st, field, sum) == IF sum.ok THEN [st EXCEPT ![field] = sum.val] ELSE st

\* the whole call
AppendToState(st, field, response) ==
    StateSet(st, field, Plus(Normalise(StateGet(st, field)), response))

\* -------------------------------------------------------------- write_file

\* posixpath.join(directory, filename): an absolute filename replaces the directory
PathJoin(directory, filename) ==
    IF filename # <<>> /\ Head(filename) = Root THEN filename ELSE directory \o filename

\* posixpath.dirname(p)
DirName(p) == SubSeq(p, 1, Len(p) - 1)

\* the directories os.makedirs(d) walks through: d and its ancestors
Ancestors(d) == {SubSeq(d, 1, i) : i \in 1..Len(d)}

\* os.makedirs(d, exist_ok=True) succeeds: d is not "" and no component is a file
MakedirsOk(fs, d) == d # <<>> /\ \A a \in Ancestors(d) : a \notin DOMAIN fs.files

\* open(target_path, "w") succeeds: the target is not a directory
OpenOk(fs, target_path) == target_path \notin fs.dirs

WrittenAppendMode(old, content) == old \o content

\* f.write(content) on a file opened with mode "w": the old text is truncated
Written(old, content) == content

\* both os.makedirs and open succeed
WriteFileOk(fs, directory, filename) ==
    LET target_path == PathJoin(directory, filename)
    IN MakedirsOk(fs, DirName(target_path)) /\ OpenOk(fs, target_path)

\* the whole call; a filesystem error propagates and nothing is written
WriteFile(fs, directory, filename, content) ==
    LET target_path == PathJoin(directory, filename)
        old == IF target_path \in DOMAIN fs.files THEN fs.files[target_path] ELSE <<>>
    IN IF WriteFileOk(fs, directory, filename)
       THEN [files |-> (target_path :> Written(old, content)) @@ fs.files,
             dirs |-> fs.dirs \cup Ancestors(DirName(target_path))]
       ELSE fs

\* ------------------------------------------------------------------- state

VARIABLES
    state,           \* session state: field -> value
    fs,              \* the filesystem: files (path -> text) and directories
    stage,           \* the agent of the tree that runs now
    apc,             \* position of each research agent in its run
    existing_state,  \* local existing_state of a research agent's call in flight
    ncalls,          \* append_to_state calls an agent made in its current run
    times_looped,    \* LoopAgent's iteration counter
    escalate,        \* exit_loop was called in the current review
    tcalls,          \* tool calls made so far (ToolSpec)
    prior,           \* history: session state at the start
    log,             \* history: per field, the responses appended, in call order
    said,            \* history: per agent, the responses it appended, in call order
    wlog,            \* history: the successful write_file calls, in call order
    rounds,          \* history: research stages started in this session
    reviews,         \* history: review stages started in this session
    writes           \* history: write_file invocations in this session

vars == <<state, fs, stage, apc, existing_state, ncalls, times_looped, escalate,
          tcalls, prior, log, said, wlog, rounds, reviews, writes>>

\* what only the direct tool calls of ToolSpec use
hist == <<prior, tcalls>>

\* ------------------------------------------------------------ agent inputs

\* the names a user may give
Subjects == {<<"Cleopatra">>, <<"Julius", " ", "Caesar">>}

\* the reports the verdict writer may produce
Contents == {<<"r1">>, <<"r2">>}

\* the text an agent saves: its n-th finding of the run of the pipeline
Finding(a) == [by |-> a, n |-> Len(said[a]) + 1]

CriticSharesField(a) == "pos_data"

\* admirer: "save your findings to the field 'pos_data'"; critic: 'neg_data'
TargetField(a) == IF a = "admirer_agent" THEN "pos_data" ELSE "neg_data"

\* "(remove spaces for filename)"
RECURSIVE RemoveSpaces(_)
RemoveSpaces(text) ==
    IF text = <<>> THEN <<>>
    ELSE IF Head(text) = " " THEN RemoveSpaces(Tail(text))
         ELSE <<Head(text)>> \o RemoveSpaces(Tail(text))

\* filename: "{PROMPT}.txt" with the spaces removed
ReportFilename(st) == <<RemoveSpaces(st["PROMPT"].v[1]) \o <<".txt">>>>

\* ------------------------------------------------------- the agent tree

Init ==
    /\ state = EmptyState
    /\ fs = EmptyFs
    /\ stage = "greet"
    /\ apc = [a \in ResearchAgents |-> "idle"]
    /\ existing_state = [a \in ResearchAgents |-> Absent]
    /\ ncalls = [a \in Agents |-> 0]
    /\ times_looped = 0
    /\ escalate = FALSE
    /\ tcalls = 0
    /\ prior = EmptyState
    /\ log = [f \in Fields |-> <<>>]
    /\ said = [a \in Agents |-> <<>>]
    /\ wlog = <<>>
    /\ rounds = 0
    /\ reviews = 0
    /\ writes = 0

LoopContinueOffByOne(tl) == tl <= max_iterations

\* while times_looped < max_iterations
LoopContinue(tl) == tl < max_iterations

ShouldExitNever(esc) == FALSE

\* the loop returns when an event of the sub-agent carried actions.escalate
ShouldExit(esc) == esc

AfterTrialEscalated(esc) == IF esc THEN "done" ELSE "report"

\* court_system runs verdict_writer after trial_process, however the loop ended
AfterTrial(esc) == "report"

InvestigationDoneAny == \E a \in ResearchAgents : apc[a] = "done"

\* ParallelAgent ends when every sub-agent has ended
InvestigationDone == \A a \in ResearchAgents : apc[a] = "done"

\* the head of LoopAgent's while loop: one more round, or on to the report
EnterIteration(tl) ==
    IF LoopContinue(tl)
    THEN /\ stage' = "research"
         /\ apc' = [a \in ResearchAgents |-> "running"]
         /\ ncalls' = [a \in Agents |-> 0]
         /\ escalate' = FALSE
         /\ rounds' = rounds + 1
    ELSE /\ stage' = AfterTrial(FALSE)
         /\ UNCHANGED <<apc, ncalls, escalate, rounds>>

\* root_agent saves the subject to PROMPT
RootCapture(subject) ==
    /\ stage = "greet"
    /\ state' = AppendToState(state, "PROMPT", subject)
    /\ log' = [log EXCEPT !["PROMPT"] = Append(@, subject)]
    /\ said' = [said EXCEPT !["historical_court_clerk"] = Append(@, subject)]
    /\ stage' = "handover"
    /\ UNCHANGED <<fs, apc, existing_state, ncalls, times_looped, escalate, wlog, rounds, reviews, writes, hist>>

\* root_agent hands over to court_system, whose first sub-agent is trial_process
CourtSystemStart ==
    /\ stage = "handover"
    /\ times_looped' = 0
    /\ EnterIteration(0)
    /\ UNCHANGED <<state, fs, existing_state, log, said, wlog, reviews,
                   writes, hist>>

\* a research agent calls append_to_state: lines 34-37 read and normalise
AppendRead(a) ==
    /\ stage = "research"
    /\ apc[a] = "running"
    /\ ncalls[a] < MaxAppends
    /\ existing_state' = [existing_state EXCEPT
                             ![a] = Normalise(StateGet(state, TargetField(a)))]
    /\ apc' = [apc EXCEPT ![a] = "appending"]
    /\ UNCHANGED <<state, fs, stage, ncalls, times_looped, escalate, log,
                   said, wlog, rounds, reviews, writes, hist>>

\* ... and line 39 stores the sum
AppendWrite(a) ==
    /\ stage = "research"
    /\ apc[a] = "appending"
    /\ state' = StateSet(state, TargetField(a), Plus(existing_state[a], Finding(a)))
    /\ log' = [log EXCEPT ![TargetField(a)] = Append(@, Finding(a))]
    /\ said' = [said EXCEPT ![a] = Append(@, Finding(a))]
    /\ ncalls' = [ncalls EXCEPT ![a] = @ + 1]
    /\ existing_state' = [existing_state EXCEPT ![a] = Absent]
    /\ apc' = [apc EXCEPT ![a] = "running"]
    /\ UNCHANGED <<fs, stage, times_looped, escalate, wlog, rounds, reviews,
                   writes, hist>>

\* a research agent ends its run
AgentFinish(a) ==
    /\ stage = "research"
    /\ apc[a] = "running"
    /\ apc' = [apc EXCEPT ![a] = "done"]
    /\ UNCHANGED <<state, fs, stage, existing_state, ncalls, times_looped, escalate,
                   log, said, wlog, rounds, reviews, writes, hist>>

\* investigation_team has ended: trial_process runs its next sub-agent, the judge
TeamJoin ==
    /\ stage = "research"
    /\ InvestigationDone
    /\ stage' = "review"
    /\ reviews' = reviews + 1
    /\ UNCHANGED <<state, fs, apc, existing_state, ncalls, times_looped, escalate,
                   log, said, wlog, rounds, writes, hist>>

\* the judge writes instructions to judge_feedback
JudgeAppend ==
    /\ stage = "review"
    /\ ncalls["judge_agent"] < MaxAppends
    /\ state' = AppendToState(state, "judge_feedback", Finding("judge_agent"))
    /\ log' = [log EXCEPT !["judge_feedback"] = Append(@, Finding("judge_agent"))]
    /\ said' = [said EXCEPT !["judge_agent"] = Append(@, Finding("judge_agent"))]
    /\ ncalls' = [ncalls EXCEPT !["judge_agent"] = @ + 1]
    /\ UNCHANGED <<fs, stage, apc, existing_state, times_looped, escalate, wlog, rounds, reviews, writes, hist>>

\* the judge calls exit_loop
JudgeExitLoop ==
    /\ stage = "review"
    /\ ~escalate
    /\ escalate' = TRUE
    /\ UNCHANGED <<state, fs, stage, apc, existing_state, ncalls, times_looped,
                   log, said, wlog, rounds, reviews, writes, hist>>

\* the judge ends its run: the loop returns, or counts the round and goes on
JudgeFinish ==
    /\ stage = "review"
    /\ IF ShouldExit(escalate)
       THEN /\ stage' = AfterTrial(escalate)
            /\ UNCHANGED <<apc, ncalls, escalate, rounds, times_looped>>
       ELSE /\ times_looped' = times_looped + 1
            /\ EnterIteration(times_looped + 1)
    /\ UNCHANGED <<state, fs, existing_state, log, said, wlog, reviews,
                   writes, hist>>

\* verdict_writer saves the report with write_file
VerdictWrite(content) ==
    /\ stage = "report"
    /\ fs' = WriteFile(fs, court_records, ReportFilename(state), content)
    /\ wlog' = IF WriteFileOk(fs, court_records, ReportFilename(state))
               THEN Append(wlog, [directory |-> court_records,
                                  filename |-> ReportFilename(state),
                                  content |-> content])
               ELSE wlog
    /\ writes' = writes + 1
    /\ stage' = "done"
    /\ UNCHANGED <<state, apc, existing_state, ncalls, times_looped, escalate, log, said, rounds, reviews, hist>>

\* the steps the framework takes once the user has named a subject
CourtStep ==
    \/ CourtSystemStart
    \/ \E a \in ResearchAgents : AppendRead(a)
    \/ \E a \in ResearchAgents : AppendWrite(a)
    \/ \E a \in ResearchAgents : AgentFinish(a)
    \/ TeamJoin
    \/ JudgeAppend
    \/ JudgeExitLoop
    \/ JudgeFinish
    \/ \E content \in Contents : VerdictWrite(content)

Next ==
    \/ \E subject \in Subjects : RootCapture(subject)
    \/ CourtStep

Spec == Init /\ [][Next]_vars

\* every stage that has started completes
FairSpec == Spec /\ WF_vars(CourtStep)

\* ------------------------------------------------- the tools, called directly

\* the fields the direct calls use, and the values they may hold at the start
ToolFields == {"judge_feedback", "pos_data"}

Priors == {Absent, Str("x"), List(<<>>), List(<<"x", "z">>)}

Responses == {"x", "y"}

\* "court_records" and "court_records/old"
Directories == {court_records, court_records \o <<<<"old">>>>}

\* "X.txt", "old/X.txt" and "old"
Filenames == {<<<<"X", ".txt">>>>, <<<<"old">>, <<"X", ".txt">>>>, <<<<"old">>>>}

InitTool ==
    /\ state \in {st \in [Fields -> Priors] : \A f \in Fields \ ToolFields : st[f] = Absent}
    /\ prior = state
    /\ fs = EmptyFs
    /\ stage = "tool"
    /\ apc = [a \in ResearchAgents |-> "idle"]
    /\ existing_state = [a \in ResearchAgents |-> Absent]
    /\ ncalls = [a \in Agents |-> 0]
    /\ times_looped = 0
    /\ escalate = FALSE
    /\ tcalls = 0
    /\ log = [f \in Fields |-> <<>>]
    /\ said = [a \in Agents |-> <<>>]
    /\ wlog = <<>>
    /\ rounds = 0
    /\ reviews = 0
    /\ writes = 0

\* one call of append_to_state(tool_context, field, response)
ToolAppend(field, response) ==
    /\ stage = "tool"
    /\ tcalls < MaxCalls
    /\ tcalls' = tcalls + 1
    /\ state' = AppendToState(state, field, response)
    /\ log' = [log EXCEPT ![field] = Append(@, response)]
    /\ UNCHANGED <<fs, stage, apc, existing_state, ncalls, times_looped, escalate,
                   prior, said, wlog, rounds, reviews, writes>>

\* one call of write_file(tool_context, directory, filename, content)
ToolWrite(directory, filename, content) ==
    /\ stage = "tool"
    /\ tcalls < MaxCalls
    /\ tcalls' = tcalls + 1
    /\ fs' = WriteFile(fs, directory, filename, content)
    /\ wlog' = IF WriteFileOk(fs, directory, filename)
               THEN Append(wlog, [directory |-> directory, filename |-> filename,
                                  content |-> content])
               ELSE wlog
    /\ writes' = writes + 1
    /\ UNCHANGED <<state, stage, apc, existing_state, ncalls, times_looped, escalate,
                   prior, log, said, rounds, reviews>>

NextTool ==
    \/ \E field \in ToolFields, response \in Responses : ToolAppend(field, response)
    \/ \E directory \in Directories, filename \in Filenames, content \in Contents :
           ToolWrite(directory, filename, content)

ToolSpec == InitTool /\ [][NextTool]_vars

\* ------------------------------------------------------------ properties

\* what a field held before the first append, as the list append_to_state makes of it
Before(p) == CASE p.t = "absent" -> <<>> [] p.t = "str" -> <<p.v[1]>> [] p.t = "list" -> p.v

\* the path a recorded write_file call wrote to
TargetOf(w) == PathJoin(w.directory, w.filename)

\* C1 as stated: N >= 1 appends to a field that started absent, empty or as a
\* scalar string leave a list of exactly the N appended values, in call order.
C1_ExactlyN ==
    \A f \in Fields :
        (prior[f].t \in {"absent", "str"} \/ prior[f] = List(<<>>)) /\ log[f] # <<>>
            => state[f] = List(log[f])

\* C1 amended: N appends leave the field as it was when N = 0, and otherwise
\* leave the list of what the field held before (nothing, the one scalar, or the
\* elements of its list) followed by the N appended values in call order.
C1_PriorThenAppended ==
    \A f \in Fields :
        state[f] = IF log[f] = <<>> THEN prior[f] ELSE List(Before(prior[f]) \o log[f])

C1_Witness ==
    \E f \in Fields :
        /\ prior[f].t = "str"
        /\ Len(log[f]) = 2
        /\ log[f][1] # log[f][2]
        /\ Len(state[f].v) = 3

\* C2: an append of y stores [x, y] on a field holding the scalar x, [y] on an
\* absent field, and L followed by y on a field holding the list L.
C2_AppendStores ==
    [][\A f \in Fields :
          Len(log'[f]) = Len(log[f]) + 1 =>
              LET y == log'[f][Len(log'[f])]
              IN /\ state[f].t = "str" => state'[f] = List(<<state[f].v[1], y>>)
                 /\ state[f].t = "absent" => state'[f] = List(<<y>>)
                 /\ state[f].t = "list" => state'[f] = List(state[f].v \o <<y>>)]_vars

C2_Witness ==
    \E f, g \in Fields :
        /\ prior[f] = Str("x") /\ log[f] = <<"y">> /\ state[f] = List(<<"x", "y">>)
        /\ prior[g] = Absent /\ log[g] = <<"y", "x">> /\ state[g] = List(<<"y", "x">>)

\* C3: no session runs more than 4 rounds of [research, review].
C3_AtMostFourRounds == rounds <= 4 /\ reviews <= 4

C3_Witness == rounds = 4 /\ reviews = 4 /\ ~escalate /\ stage = "done"

\* C4: after any successful writes, each written path holds the content of the
\* last write to that path, and nothing else is on the filesystem.
C4_LastWriteWins ==
    /\ DOMAIN fs.files = {TargetOf(wlog[i]) : i \in 1..Len(wlog)}
    /\ \A i \in 1..Len(wlog) :
           (\A j \in (i + 1)..Len(wlog) : TargetOf(wlog[j]) # TargetOf(wlog[i]))
               => fs.files[TargetOf(wlog[i])] = wlog[i].content

C4_Witness ==
    /\ Len(wlog) = 3
    /\ TargetOf(wlog[1]) = TargetOf(wlog[3])
    /\ TargetOf(wlog[2]) # TargetOf(wlog[1])
    /\ wlog[1].content # wlog[3].content
    /\ wlog[2].content # wlog[3].content
    /\ fs.files[TargetOf(wlog[3])] = wlog[3].content

\* C5 as stated: once the judge has written feedback, judge_feedback holds
\* the feedback of the latest round only.
C5_LatestOnly ==
    said["judge_agent"] # <<>> =>
        state["judge_feedback"].v = <<said["judge_agent"][Len(said["judge_agent"])]>>

\* C5 amended: judge_feedback is absent until the judge writes, and then the
\* list of every feedback the judge has written in the in order.
C5_Accumulates ==
    state["judge_feedback"] =
        IF said["judge_agent"] = <<>> THEN Absent ELSE List(said["judge_agent"])

C5_Witness ==
    /\ Len(said["judge_agent"]) >= 2
    /\ Len(state["judge_feedback"].v) >= 2
    /\ stage = "done"

\* C6: under every interleaving of the two research agents, pos_data holds
\* exactly the admirer's findings and neg_data exactly the critic's, each in
\* call order: what running one agent after the other gives.
C6_NoLostAppend ==
    /\ state["pos_data"].v = said["admirer_agent"]
    /\ state["neg_data"].v = said["critic_agent"]

C6_Witness ==
    /\ \A a \in ResearchAgents : apc[a] = "appending" /\ Len(said[a]) >= 1
    /\ Len(said["admirer_agent"]) # Len(said["critic_agent"])

\* C7: the judge of a round runs only when both research agents of that round
\* have ended.
C7_JudgeAfterBoth ==
    /\ stage = "review" => reviews = rounds /\ \A a \in ResearchAgents : apc[a] = "done"
    /\ stage = "research" => reviews = rounds - 1

C7_Witness == stage = "review" /\ rounds = 2 /\ Len(said["critic_agent"]) = 2

\* C8: the loop has ended only after an exit_loop or after round 4, and once
\* the judge has called exit_loop the session starts no further round.
C8_EndsAtFirstExit ==
    /\ [](stage \in {"report", "done"} => escalate \/ rounds = max_iterations)
    /\ [][escalate =>
              escalate' /\ rounds' = rounds /\ reviews' = reviews /\ stage' # "research"]_vars

C8_Witness == escalate /\ rounds = 2 /\ reviews = 2 /\ stage = "done"

\* C9: write_file is invoked at most once in a only by the report
\* stage once the loop has ended, and every session whose stages complete
\* reaches the end with the report written.
C9_ReportOnce ==
    /\ [](writes <= 1 /\ (writes = 1 <=> stage = "done"))
    /\ (stage = "handover") ~> (stage = "done" /\ writes = 1)

C9_Witness == stage = "done" /\ writes = 1 /\ ~escalate /\ rounds = max_iterations

\* C10: a field written by append_to_state holds a list, and every write
\* extends what the field held by exactly one element at the end.
C10_AppendOnly ==
    /\ [](\A f \in Fields : log[f] # <<>> => state[f].t = "list")
    /\ [][\A f \in Fields :
              IF Len(log'[f]) = Len(log[f]) + 1
              THEN /\ state'[f].t = "list"
                   /\ Len(state'[f].v) = Len(state[f].v) + 1
                   /\ SubSeq(state'[f].v, 1, Len(state[f].v)) = state[f].v
              ELSE state'[f] = state[f]]_vars

C10_Witness ==
    \E f, g \in Fields :
        /\ prior[f] = Str("x") /\ Len(log[f]) = 1 /\ state[f].t = "list"
        /\ prior[g] = List(<<"x", "z">>) /\ Len(log[g]) = 2 /\ Len(state[g].v) = 4

====
